---- MODULE Spec2Model ----
(***************************************************************************)
(* State-machine model of the Telegram coin-reward bot (src/server/bot.ts). *)
(* Every inbound event (command, free-text message, button callback) is    *)
(* handled by one asynchronous task; a task is suspended at every awaited  *)
(* storage call, so each storage call is one atomic step and the steps of  *)
(* tasks in flight interleave freely.                                      *)
(* Time is counted in units of eight hours; instant 0 is 00:00 UTC.        *)
(***************************************************************************)
EXTENDS Integers, Sequences, FiniteSets, TLC

VARIABLES
    users,          \* storage: the user table, telegramId -> row
    transactions,   \* storage: the append-only transaction table
    raffles,        \* storage: the raffle table, id -> row
    raffleEntries,  \* storage: the raffle-entry table
    shopItems,      \* storage: the shop-item table, id -> row
    purchases,      \* storage: the purchase table
    userStates,     \* the in-memory Map userStates (bot.ts line 8)
    now,            \* the wall clock, in eight-hour units since 00:00 UTC
    serverTz,       \* the local-time offset of the server process, same units
    maxInFlight,    \* how many events the transport lets be handled at once
    bot,            \* the module variable bot (bot.ts line 5) and its listeners
    procs           \* the handler tasks: one per inbound event

vars == <<users, transactions, raffles, raffleEntries, shopItems, purchases,
          userStates, now, serverTz, maxInFlight, bot, procs>>

-----------------------------------------------------------------------------
(* Bounds of the model *)

MaxDailyEvents == 2
MaxTradeEvents == 2
MaxReferralEvents == 3
MaxTime == 5
MaxSelectEvents == 2
MaxBroadcasts == 2
MaxInitCalls == 3
MaxFaultEvents == 2
MaxDialogEvents == 3
MaxRaffleEvents == 3

-----------------------------------------------------------------------------
(* Values *)

UserIds == {"u1", "u2", "u3"}
UserOrder == <<"u1", "u2", "u3">>

\* generateReferralCode: nanoid(8).toUpperCase(); one fixed code per user
referralCode(u) == CASE u = "u1" -> "C1" [] u = "u2" -> "C2" [] OTHER -> "C3"

NoCode == ""
Null == {}
Some(v) == {v}
TheValue(s) == CHOOSE v \in s : TRUE

\* String.prototype.toUpperCase on the texts the model sends
toUpperCase(t) ==
    CASE t = "c1" -> "C1" [] t = "c2" -> "C2" [] t = "c3" -> "C3"
      [] t = "cx" -> "CX" [] OTHER -> t

\* parseInt(text.trim()) on the texts the model sends; 0 - 1 stands for NaN
NaN == 0 - 1
parseInt(t) ==
    CASE t = "0" -> 0 [] t = "1" -> 1 [] t = "2" -> 2 [] t = "3" -> 3
      [] OTHER -> NaN

\* (await storage.getBotSetting('daily_reward_amount'))?.value || '1'
dailyRewardAmount == 1
\* (await storage.getBotSetting('referral_reward_amount'))?.value || '1'
referralReward == 1

NoUser == [exists |-> FALSE, coins |-> 0, streak |-> 0,
           lastDailyReward |-> Null, referredBy |-> NoCode]

NoRow == [id |-> 0, cost |-> 0, entries |-> 0, stock |-> Null]

RaffleIds == {1, 2}
ItemIds == {1, 2}

\* let bot: TelegramBot | null = null; instance 0 stands for null. listeners
\* are the instances on which setupBotHandlers has registered the handlers
NoBot == [instance |-> 0, listeners |-> {}]
RunningBot == [instance |-> 1, listeners |-> {1}]

IdleProc == [kind |-> "idle", uid |-> "", arg |-> "", pc |-> "idle",
             user |-> NoUser, row |-> NoRow, owner |-> "", out |-> "",
             at |-> 0, end |-> 0, after |-> {},
             found |-> NoUser, coinsAt |-> [u \in UserIds |-> 0], txAt |-> 0,
             tablesAt |-> <<>>, statesAt |-> <<>>]

-----------------------------------------------------------------------------
(* The daily eligibility check *)

pstOffset == 0 - 1
DayLength == 3

\* Date.getFullYear/getMonth/getDate read the calendar date in the server's
\* local time: the civil day of instant t as the server process sees it
LocalDate(t, tz) == (t + tz + 2 * DayLength) \div DayLength

toPST(t) == t + pstOffset

canClaimDailyReward(lastReward, t, tz) ==
    IF lastReward = Null THEN TRUE
    ELSE LocalDate(toPST(t), tz) > LocalDate(toPST(TheValue(lastReward)), tz)

\* The civil day of instant t in the fixed UTC-8 offset (what "today" means)
PstDay(t) == (t + pstOffset + 2 * DayLength) \div DayLength

-----------------------------------------------------------------------------
(* The storage interface (./storage, consumed by bot.ts) *)

Transaction(u, type, amount, desc) ==
    [userId |-> u, type |-> type, amount |-> amount, desc |-> desc,
     createdAt |-> now]

\* storage.awardReward(telegramId, amount, type, description)
awardReward_users(us, u, amount) == [us EXCEPT ![u].coins = @ + amount]

\* storage.claimDaily(telegramId, amount)
claimDaily_users(us, u, amount, t) ==
    [us EXCEPT ![u].coins = @ + amount,
               ![u].streak = @ + 1,
               ![u].lastDailyReward = Some(t)]

\* storage.getUserByReferralCode(code): the owner's telegramId, "" when none
getUserByReferralCode(us, code) ==
    LET owners == {u \in UserIds : us[u].exists /\ referralCode(u) = code}
    IN IF owners = {} THEN "" ELSE CHOOSE u \in owners : TRUE

-----------------------------------------------------------------------------
(* Handler tasks *)

ProcIds == DOMAIN procs
InFlight == {p \in ProcIds : procs[p].pc \notin {"idle", "done"}}
Finished == {p \in ProcIds : procs[p].pc = "done"}
Quiescent == InFlight = {}

\* An event arrives: the next unused task takes it, if the transport lets it in
Arrives(p) ==
    /\ procs[p].pc = "idle"
    /\ \A q \in ProcIds : q < p => procs[q].pc # "idle"
    /\ Cardinality(InFlight) < maxInFlight

Begin(p, kind, u, arg) ==
    [procs[p] EXCEPT !.kind = kind, !.uid = u, !.arg = arg,
                     !.user = users[u], !.at = now, !.after = Finished,
                     !.found = users[u],
                     !.coinsAt = [x \in UserIds |-> users[x].coins],
                     !.txAt = Len(transactions),
                     !.tablesAt = <<raffles, raffleEntries, shopItems, purchases>>,
                     !.statesAt = userStates]

Done(rec, outcome) == [rec EXCEPT !.pc = "done", !.out = outcome, !.end = now]
Goto(rec, label) == [rec EXCEPT !.pc = label]

Tick ==
    /\ now < MaxTime
    /\ now' = now + 1
    /\ UNCHANGED <<users, transactions, raffles, raffleEntries, shopItems,
                   purchases, userStates, serverTz, maxInFlight, bot, procs>>

-----------------------------------------------------------------------------
(* bot.onText(/\/daily/) *)

OnDaily(p, u) ==
    /\ Arrives(p)
    /\ LET rec == Begin(p, "daily", u, "")
       IN procs' = [procs EXCEPT ![p] =
            IF ~rec.user.exists THEN Done(rec, "NotStarted")
            ELSE IF ~canClaimDailyReward(rec.user.lastDailyReward, now, serverTz)
                 THEN Done(rec, "AlreadyClaimedToday")
            ELSE Goto(rec, "claimDaily")]
    /\ UNCHANGED <<users, transactions, raffles, raffleEntries, shopItems,
                   purchases, userStates, now, serverTz, maxInFlight, bot>>

OnDaily_claimDaily(p) ==
    /\ procs[p].pc = "claimDaily"
    /\ users' = claimDaily_users(users, procs[p].uid, dailyRewardAmount, now)
    /\ transactions' = Append(transactions,
            Transaction(procs[p].uid, "daily_reward", dailyRewardAmount, "daily"))
    /\ procs' = [procs EXCEPT ![p] = Done(@, "ok")]
    /\ UNCHANGED <<raffles, raffleEntries, shopItems, purchases, userStates,
                   now, serverTz, maxInFlight, bot>>

-----------------------------------------------------------------------------
(* bot.on('callback_query') and the handlers it dispatches to *)

\* The cases of the switch that only read and render
ViewTags == {"view_raffles", "view_shop", "referral_link", "my_info"}

\* Every callback_data the bot puts on a button
CallbackTags == {"daily_checkin", "enter_code", "back_to_menu",
                 "raffle_1", "raffle_2", "shop_1", "shop_2",
                 "daily_completed"} \cup ViewTags

\* data.startsWith('raffle_'), data.startsWith('shop_')
startsWithRaffle(data) == data \in {"raffle_1", "raffle_2", "raffle_3"}
startsWithShop(data) == data \in {"shop_1", "shop_2", "shop_3"}

\* parseInt(data.split('_')[1])
tagId(data) ==
    CASE data \in {"raffle_1", "shop_1"} -> 1
      [] data \in {"raffle_2", "shop_2"} -> 2
      [] OTHER -> 3

\* OnCallback with the state cleared by every button, not only back_to_menu
OnCallback_ClearAlways(p, u, data) ==
    /\ Arrives(p)
    /\ LET rec == Begin(p, "callback", u, data)
       IN procs' = [procs EXCEPT ![p] =
            IF ~rec.user.exists THEN Done(rec, "NotStarted")
            ELSE CASE data = "daily_checkin" ->
                        IF ~canClaimDailyReward(rec.user.lastDailyReward, now, serverTz)
                        THEN Done(rec, "AlreadyClaimedToday")
                        ELSE Goto(rec, "daily_awardReward")
                   [] data = "enter_code" -> Goto(rec, "enter_setState")
                   [] data = "back_to_menu" -> Goto(rec, "menu_getUser")
                   [] data \in ViewTags -> Goto(rec, "view_read")
                   [] startsWithRaffle(data) -> Goto(rec, "raffle_getRaffleById")
                   [] startsWithShop(data) -> Goto(rec, "shop_getAllShopItems")
                   [] OTHER -> Done(rec, "Unanswered")]
    /\ userStates' = IF users[u].exists
                     THEN [userStates EXCEPT ![u] = "none"]
                     ELSE userStates
    /\ UNCHANGED <<users, transactions, raffles, raffleEntries, shopItems,
                   purchases, now, serverTz, maxInFlight, bot>>

OnCallback(p, u, data) ==
    /\ Arrives(p)
    /\ LET rec == Begin(p, "callback", u, data)
       IN procs' = [procs EXCEPT ![p] =
            IF ~rec.user.exists THEN Done(rec, "NotStarted")
            ELSE CASE data = "daily_checkin" ->
                        IF ~canClaimDailyReward(rec.user.lastDailyReward, now, serverTz)
                        THEN Done(rec, "AlreadyClaimedToday")
                        ELSE Goto(rec, "daily_awardReward")
                   [] data = "enter_code" -> Goto(rec, "enter_setState")
                   [] data = "back_to_menu" -> Goto(rec, "menu_getUser")
                   [] data \in ViewTags -> Goto(rec, "view_read")
                   [] startsWithRaffle(data) -> Goto(rec, "raffle_getRaffleById")
                   [] startsWithShop(data) -> Goto(rec, "shop_getAllShopItems")
                   [] OTHER -> Done(rec, "Unanswered")]
    /\ userStates' = IF users[u].exists /\ data = "back_to_menu"
                     THEN [userStates EXCEPT ![u] = "none"]
                     ELSE userStates
    /\ UNCHANGED <<users, transactions, raffles, raffleEntries, shopItems,
                   purchases, now, serverTz, maxInFlight, bot>>

\* handleViewRaffles, handleViewShop, handleReferralLink, handleMyInfo: read,
\* render, answer the query
handleView(p) ==
    /\ procs[p].pc = "view_read"
    /\ procs' = [procs EXCEPT ![p] = Done(@, "ok")]
    /\ UNCHANGED <<users, transactions, raffles, raffleEntries, shopItems,
                   purchases, userStates, now, serverTz, maxInFlight, bot>>

handleDailyCheckin_awardReward(p) ==
    /\ procs[p].pc = "daily_awardReward"
    /\ users' = awardReward_users(users, procs[p].uid, dailyRewardAmount)
    /\ transactions' = Append(transactions,
            Transaction(procs[p].uid, "daily_reward", dailyRewardAmount, "daily"))
    /\ procs' = [procs EXCEPT ![p] =
            Goto([@ EXCEPT !.user.coins = users'[procs[p].uid].coins],
                 "daily_updateUser")]
    /\ UNCHANGED <<raffles, raffleEntries, shopItems, purchases, userStates,
                   now, serverTz, maxInFlight, bot>>

handleDailyCheckin_updateUser(p) ==
    /\ procs[p].pc = "daily_updateUser"
    /\ users' = [users EXCEPT ![procs[p].uid].lastDailyReward = Some(now)]
    /\ procs' = [procs EXCEPT ![p] = Done(@, "ok")]
    /\ UNCHANGED <<transactions, raffles, raffleEntries, shopItems, purchases,
                   userStates, now, serverTz, maxInFlight, bot>>

handleEnterCode(p) ==
    /\ procs[p].pc = "enter_setState"
    /\ userStates' = [userStates EXCEPT ![procs[p].uid] = "expecting_invite_code"]
    /\ procs' = [procs EXCEPT ![p] = Done(@, "ok")]
    /\ UNCHANGED <<users, transactions, raffles, raffleEntries, shopItems,
                   purchases, now, serverTz, maxInFlight, bot>>

handleBackToMenu(p) ==
    /\ procs[p].pc = "menu_getUser"
    /\ procs' = [procs EXCEPT ![p] =
            IF users[procs[p].uid].exists THEN Done(@, "ok")
            ELSE Done(@, "UserNotFound")]
    /\ UNCHANGED <<users, transactions, raffles, raffleEntries, shopItems,
                   purchases, userStates, now, serverTz, maxInFlight, bot>>

-----------------------------------------------------------------------------
(* Raffle entry: handleRaffleEntry and the numbered-reply branch *)

RaffleRow(id) == [id |-> id, cost |-> raffles[id].entryCost,
                  entries |-> raffles[id].currentEntries, stock |-> Null]

\* handleRaffleEntry's read step without its balance check
handleRaffleEntry_NoBalanceCheck(p) ==
    /\ procs[p].pc = "raffle_getRaffleById"
    /\ LET id == tagId(procs[p].arg)
       IN procs' = [procs EXCEPT ![p] =
            IF id \notin RaffleIds \/ ~raffles[id].exists
            THEN Done(@, "RaffleNotFound")
            ELSE Goto([@ EXCEPT !.row = RaffleRow(id)], "raffle_updateUser")]
    /\ UNCHANGED <<users, transactions, raffles, raffleEntries, shopItems,
                   purchases, userStates, now, serverTz, maxInFlight, bot>>

handleRaffleEntry_getRaffleById(p) ==
    /\ procs[p].pc = "raffle_getRaffleById"
    /\ LET id == tagId(procs[p].arg)
       IN procs' = [procs EXCEPT ![p] =
            IF id \notin RaffleIds \/ ~raffles[id].exists
            THEN Done(@, "RaffleNotFound")
            ELSE IF @.user.coins < raffles[id].entryCost
                 THEN Done(@, "InsufficientBalance")
            ELSE Goto([@ EXCEPT !.row = RaffleRow(id)], "raffle_updateUser")]
    /\ UNCHANGED <<users, transactions, raffles, raffleEntries, shopItems,
                   purchases, userStates, now, serverTz, maxInFlight, bot>>

EnterRaffle_updateUser(p) ==
    /\ procs[p].pc = "raffle_updateUser"
    /\ users' = [users EXCEPT ![procs[p].uid].coins =
                    procs[p].user.coins - procs[p].row.cost]
    /\ procs' = [procs EXCEPT ![p] = Goto(@, "raffle_enterRaffle")]
    /\ UNCHANGED <<transactions, raffles, raffleEntries, shopItems, purchases,
                   userStates, now, serverTz, maxInFlight, bot>>

EnterRaffle_enterRaffle(p) ==
    /\ procs[p].pc = "raffle_enterRaffle"
    /\ raffleEntries' = [raffleEntries EXCEPT
                            ![<<procs[p].row.id, procs[p].uid>>] = @ + 1]
    /\ procs' = [procs EXCEPT ![p] = Goto(@, "raffle_updateRaffle")]
    /\ UNCHANGED <<users, transactions, raffles, shopItems, purchases,
                   userStates, now, serverTz, maxInFlight, bot>>

EnterRaffle_updateRaffle(p) ==
    /\ procs[p].pc = "raffle_updateRaffle"
    /\ raffles' = [raffles EXCEPT ![procs[p].row.id].currentEntries =
                      procs[p].row.entries + 1]
    /\ procs' = [procs EXCEPT ![p] = Goto(@, "raffle_createTransaction")]
    /\ UNCHANGED <<users, transactions, raffleEntries, shopItems, purchases,
                   userStates, now, serverTz, maxInFlight, bot>>

EnterRaffle_createTransaction(p) ==
    /\ procs[p].pc = "raffle_createTransaction"
    /\ transactions' = Append(transactions,
            Transaction(procs[p].uid, "raffle_entry", 0 - procs[p].row.cost, "raffle"))
    /\ procs' = [procs EXCEPT ![p] = Done(@, "ok")]
    /\ UNCHANGED <<users, raffles, raffleEntries, shopItems, purchases,
                   userStates, now, serverTz, maxInFlight, bot>>

-----------------------------------------------------------------------------
(* Shop purchase: handleShopPurchase and the numbered-reply branch *)

ItemRow(id) == [id |-> id, cost |-> shopItems[id].cost, entries |-> 0,
                stock |-> shopItems[id].stock]

\* PurchaseCheck without its balance check
PurchaseCheck_NoBalanceCheck(rec, id) ==
    IF shopItems[id].stock # Null /\ TheValue(shopItems[id].stock) <= 0
    THEN Done(rec, "OutOfStock")
    ELSE Goto([rec EXCEPT !.row = ItemRow(id)], "shop_updateUser")

\* The two checks both paths make on the chosen item, in the code's order
PurchaseCheck(rec, id) ==
    IF rec.user.coins < shopItems[id].cost
    THEN Done(rec, "InsufficientBalance")
    ELSE IF shopItems[id].stock # Null /\ TheValue(shopItems[id].stock) <= 0
         THEN Done(rec, "OutOfStock")
    ELSE Goto([rec EXCEPT !.row = ItemRow(id)], "shop_updateUser")

handleShopPurchase_getAllShopItems(p) ==
    /\ procs[p].pc = "shop_getAllShopItems"
    /\ LET id == tagId(procs[p].arg)
       IN procs' = [procs EXCEPT ![p] =
            IF id \notin ItemIds \/ ~shopItems[id].exists
            THEN Done(@, "ItemNotFound")
            ELSE PurchaseCheck(@, id)]
    /\ UNCHANGED <<users, transactions, raffles, raffleEntries, shopItems,
                   purchases, userStates, now, serverTz, maxInFlight, bot>>

Purchase_updateUser(p) ==
    /\ procs[p].pc = "shop_updateUser"
    /\ users' = [users EXCEPT ![procs[p].uid].coins =
                    procs[p].user.coins - procs[p].row.cost]
    /\ procs' = [procs EXCEPT ![p] = Goto(@, "shop_createPurchase")]
    /\ UNCHANGED <<transactions, raffles, raffleEntries, shopItems, purchases,
                   userStates, now, serverTz, maxInFlight, bot>>

Purchase_createPurchase(p) ==
    /\ procs[p].pc = "shop_createPurchase"
    /\ purchases' = [purchases EXCEPT
                        ![<<procs[p].row.id, procs[p].uid>>] = @ + 1]
    /\ procs' = [procs EXCEPT ![p] =
            IF @.row.stock # Null THEN Goto(@, "shop_updateShopItem")
            ELSE Goto(@, "shop_createTransaction")]
    /\ UNCHANGED <<users, transactions, raffles, raffleEntries, shopItems,
                   userStates, now, serverTz, maxInFlight, bot>>

\* Purchase_updateShopItem writing the stock back as it was read
Purchase_updateShopItem_NoDecrement(p) ==
    /\ procs[p].pc = "shop_updateShopItem"
    /\ shopItems' = [shopItems EXCEPT ![procs[p].row.id].stock = procs[p].row.stock]
    /\ procs' = [procs EXCEPT ![p] = Goto(@, "shop_createTransaction")]
    /\ UNCHANGED <<users, transactions, raffles, raffleEntries, purchases,
                   userStates, now, serverTz, maxInFlight, bot>>

Purchase_updateShopItem(p) ==
    /\ procs[p].pc = "shop_updateShopItem"
    /\ shopItems' = [shopItems EXCEPT ![procs[p].row.id].stock =
                        Some(TheValue(procs[p].row.stock) - 1)]
    /\ procs' = [procs EXCEPT ![p] = Goto(@, "shop_createTransaction")]
    /\ UNCHANGED <<users, transactions, raffles, raffleEntries, purchases,
                   userStates, now, serverTz, maxInFlight, bot>>

Purchase_createTransaction(p) ==
    /\ procs[p].pc = "shop_createTransaction"
    /\ transactions' = Append(transactions,
            Transaction(procs[p].uid, "shop_purchase", 0 - procs[p].row.cost, "shop"))
    /\ procs' = [procs EXCEPT ![p] = Done(@, "ok")]
    /\ UNCHANGED <<users, raffles, raffleEntries, shopItems, purchases,
                   userStates, now, serverTz, maxInFlight, bot>>

-----------------------------------------------------------------------------
(* Referral credit: the three writes shared by /start and the invite branch *)

Referral_awardReferrer(p) ==
    /\ procs[p].pc = "referral_awardReferrer"
    /\ users' = awardReward_users(users, procs[p].owner, referralReward)
    /\ transactions' = Append(transactions,
            Transaction(procs[p].owner, "referral", referralReward, "inviter"))
    /\ procs' = [procs EXCEPT ![p] = Goto(@, "referral_awardReferee")]
    /\ UNCHANGED <<raffles, raffleEntries, shopItems, purchases, userStates,
                   now, serverTz, maxInFlight, bot>>

Referral_awardReferee(p) ==
    /\ procs[p].pc = "referral_awardReferee"
    /\ users' = awardReward_users(users, procs[p].uid, referralReward)
    /\ transactions' = Append(transactions,
            Transaction(procs[p].uid, "referral", referralReward, "referee"))
    /\ procs' = [procs EXCEPT ![p] = Goto(@, "referral_updateUser")]
    /\ UNCHANGED <<raffles, raffleEntries, shopItems, purchases, userStates,
                   now, serverTz, maxInFlight, bot>>

Referral_updateUser(p) ==
    /\ procs[p].pc = "referral_updateUser"
    /\ users' = [users EXCEPT ![procs[p].uid].referredBy = procs[p].arg]
    /\ procs' = [procs EXCEPT ![p] = Done(@, "ReferralAccepted")]
    /\ UNCHANGED <<transactions, raffles, raffleEntries, shopItems, purchases,
                   userStates, now, serverTz, maxInFlight, bot>>

-----------------------------------------------------------------------------
(* bot.onText(/\/start(?:\s+(.+))?/) *)

\* if (!user.referredBy && referralCode)
StartReferral(rec) ==
    IF rec.user.referredBy = NoCode /\ rec.arg # NoCode
    THEN Goto(rec, "start_getUserByReferralCode")
    ELSE Done(rec, "Menu")

OnStart(p, u, code) ==
    /\ Arrives(p)
    /\ LET rec == Begin(p, "start", u, code)
       IN procs' = [procs EXCEPT ![p] =
            IF ~rec.user.exists THEN Goto(rec, "start_createUser")
            ELSE StartReferral(rec)]
    /\ UNCHANGED <<users, transactions, raffles, raffleEntries, shopItems,
                   purchases, userStates, now, serverTz, maxInFlight, bot>>

newUser(code) == [exists |-> TRUE, coins |-> 0, streak |-> 0,
                  lastDailyReward |-> Null, referredBy |-> code]

OnStart_createUser(p) ==
    /\ procs[p].pc = "start_createUser"
    /\ IF users[procs[p].uid].exists
       THEN /\ procs' = [procs EXCEPT ![p] = Done(@, "Error")]
            /\ UNCHANGED users
       ELSE /\ users' = [users EXCEPT ![procs[p].uid] = newUser(procs[p].arg)]
            /\ procs' = [procs EXCEPT ![p] =
                    StartReferral([@ EXCEPT !.user = newUser(procs[p].arg)])]
    /\ UNCHANGED <<transactions, raffles, raffleEntries, shopItems, purchases,
                   userStates, now, serverTz, maxInFlight, bot>>

OnStart_getUserByReferralCode(p) ==
    /\ procs[p].pc = "start_getUserByReferralCode"
    /\ LET referrer == getUserByReferralCode(users, procs[p].arg)
       IN procs' = [procs EXCEPT ![p] =
            IF referrer = "" THEN Done(@, "Menu")
            ELSE Goto([@ EXCEPT !.owner = referrer], "referral_awardReferrer")]
    /\ UNCHANGED <<users, transactions, raffles, raffleEntries, shopItems,
                   purchases, userStates, now, serverTz, maxInFlight, bot>>

-----------------------------------------------------------------------------
(* bot.on('message'): invitation codes and numbered selection *)

\* OnMessage without userStates.delete
OnMessage_KeepState(p, u, text) ==
    /\ Arrives(p)
    /\ LET rec == Begin(p, "message", u, text)
           expecting == userStates[u] = "expecting_invite_code"
       IN /\ procs' = [procs EXCEPT ![p] =
                IF ~rec.user.exists THEN Done(rec, "Ignored")
                ELSE IF expecting
                     THEN Goto([rec EXCEPT !.arg = toUpperCase(text)],
                               "invite_getUserByReferralCode")
                ELSE IF parseInt(text) = NaN THEN Done(rec, "Ignored")
                ELSE Goto(rec, "msg_getActiveRaffles")]
          /\ userStates' = userStates
    /\ UNCHANGED <<users, transactions, raffles, raffleEntries, shopItems,
                   purchases, now, serverTz, maxInFlight, bot>>

\* OnMessage trying the text as a number before looking at the state
OnMessage_NumberFirst(p, u, text) ==
    /\ Arrives(p)
    /\ LET rec == Begin(p, "message", u, text)
           expecting == userStates[u] = "expecting_invite_code"
       IN /\ procs' = [procs EXCEPT ![p] =
                IF ~rec.user.exists THEN Done(rec, "Ignored")
                ELSE IF parseInt(text) # NaN THEN Goto(rec, "msg_getActiveRaffles")
                ELSE IF expecting
                     THEN Goto([rec EXCEPT !.arg = toUpperCase(text)],
                               "invite_getUserByReferralCode")
                ELSE Done(rec, "Ignored")]
          /\ userStates' = IF rec.user.exists /\ expecting
                           THEN [userStates EXCEPT ![u] = "none"]
                           ELSE userStates
    /\ UNCHANGED <<users, transactions, raffles, raffleEntries, shopItems,
                   purchases, now, serverTz, maxInFlight, bot>>

OnMessage(p, u, text) ==
    /\ Arrives(p)
    /\ LET rec == Begin(p, "message", u, text)
           expecting == userStates[u] = "expecting_invite_code"
       IN /\ procs' = [procs EXCEPT ![p] =
                IF ~rec.user.exists THEN Done(rec, "Ignored")
                ELSE IF expecting
                     THEN Goto([rec EXCEPT !.arg = toUpperCase(text)],
                               "invite_getUserByReferralCode")
                ELSE IF parseInt(text) = NaN THEN Done(rec, "Ignored")
                ELSE Goto(rec, "msg_getActiveRaffles")]
          /\ userStates' = IF rec.user.exists /\ expecting
                           THEN [userStates EXCEPT ![u] = "none"]
                           ELSE userStates
    /\ UNCHANGED <<users, transactions, raffles, raffleEntries, shopItems,
                   purchases, now, serverTz, maxInFlight, bot>>

OnMessage_getUserByReferralCode(p) ==
    /\ procs[p].pc = "invite_getUserByReferralCode"
    /\ LET codeOwner == getUserByReferralCode(users, procs[p].arg)
       IN procs' = [procs EXCEPT ![p] =
            IF codeOwner = "" THEN Done(@, "UnknownCode")
            ELSE IF codeOwner = @.uid THEN Done(@, "SelfReferral")
            ELSE IF @.user.referredBy # NoCode THEN Done(@, "AlreadyReferred")
            ELSE Goto([@ EXCEPT !.owner = codeOwner], "referral_awardReferrer")]
    /\ UNCHANGED <<users, transactions, raffles, raffleEntries, shopItems,
                   purchases, userStates, now, serverTz, maxInFlight, bot>>

\* storage.getActiveRaffles(), storage.getActiveShopItems(): the active rows
\* in id order
RECURSIVE SortedSeq(_)
SortedSeq(S) ==
    IF S = {} THEN <<>>
    ELSE LET m == CHOOSE x \in S : \A y \in S : x <= y
         IN <<m>> \o SortedSeq(S \ {m})

getActiveRaffles == SortedSeq({r \in RaffleIds : raffles[r].exists /\ raffles[r].active})
getActiveShopItems == SortedSeq({i \in ItemIds : shopItems[i].exists /\ shopItems[i].active})

OnMessage_getActiveRaffles(p) ==
    /\ procs[p].pc = "msg_getActiveRaffles"
    /\ LET number == parseInt(procs[p].arg)
           activeRaffles == getActiveRaffles
       IN procs' = [procs EXCEPT ![p] =
            IF number > 0 /\ number <= Len(activeRaffles)
            THEN IF @.user.coins < raffles[activeRaffles[number]].entryCost
                 THEN Done(@, "InsufficientBalance")
                 ELSE Goto([@ EXCEPT !.row = RaffleRow(activeRaffles[number])],
                           "raffle_updateUser")
            ELSE Goto(@, "msg_getActiveShopItems")]
    /\ UNCHANGED <<users, transactions, raffles, raffleEntries, shopItems,
                   purchases, userStates, now, serverTz, maxInFlight, bot>>

\* OnMessage_getActiveShopItems counting shop positions after the raffles
OnMessage_getActiveShopItems_Offset(p) ==
    /\ procs[p].pc = "msg_getActiveShopItems"
    /\ LET number == parseInt(procs[p].arg) - Len(getActiveRaffles)
           items == getActiveShopItems
       IN procs' = [procs EXCEPT ![p] =
            IF number > 0 /\ number <= Len(items)
            THEN PurchaseCheck(@, items[number])
            ELSE Done(@, "Ignored")]
    /\ UNCHANGED <<users, transactions, raffles, raffleEntries, shopItems,
                   purchases, userStates, now, serverTz, maxInFlight, bot>>

OnMessage_getActiveShopItems(p) ==
    /\ procs[p].pc = "msg_getActiveShopItems"
    /\ LET number == parseInt(procs[p].arg)
           items == getActiveShopItems
       IN procs' = [procs EXCEPT ![p] =
            IF number > 0 /\ number <= Len(items)
            THEN PurchaseCheck(@, items[number])
            ELSE Done(@, "Ignored")]
    /\ UNCHANGED <<users, transactions, raffles, raffleEntries, shopItems,
                   purchases, userStates, now, serverTz, maxInFlight, bot>>

-----------------------------------------------------------------------------
(* A storage call that rejects: the awaited call of task p throws without   *)
(* having written anything, and the catch block of the handler that owns    *)
(* the task runs. The catch of bot.on('message') only logs; the command     *)
(* handlers send the apology and the callback handler answers the query     *)
(* with it.                                                                 *)

HandlerKinds == {"start", "daily", "message", "callback"}

storageFails(p) ==
    /\ procs[p].kind \in HandlerKinds
    /\ procs[p].pc \notin {"idle", "done"}
    /\ procs' = [procs EXCEPT ![p] =
            IF @.kind = "message" THEN Done(@, "ErrorLogged")
            ELSE Done(@, "Apology")]
    /\ UNCHANGED <<users, transactions, raffles, raffleEntries, shopItems,
                   purchases, userStates, now, serverTz, maxInFlight, bot>>

-----------------------------------------------------------------------------
(* broadcastMessage(message) *)

\* The locals of one call: the list read, the loop position, the counters,
\* and a log of the sends attempted (recipient, and whether the send threw)
BroadcastTask ==
    [kind |-> "broadcast", pc |-> "getActiveUsers", out |-> "", end |-> 0,
     activeUsers |-> <<>>, i |-> 1, success |-> 0, failed |-> 0, sent |-> <<>>]

\* storage.getActiveUsers(): the registered users, in id order
getActiveUsers == SelectSeq(UserOrder, LAMBDA u : users[u].exists)

\* The for-of loop moves to the next user, or the function returns
NextRecipient(rec) ==
    IF rec.i + 1 > Len(rec.activeUsers)
    THEN Done([rec EXCEPT !.i = @ + 1], "returned")
    ELSE Goto([rec EXCEPT !.i = @ + 1], "sendMessage")

\* if (!bot) throw new Error('Bot is not initialized')
broadcastMessage(p, botReady) ==
    /\ Arrives(p)
    /\ procs' = [procs EXCEPT ![p] =
            IF botReady THEN BroadcastTask
            ELSE Done(BroadcastTask, "BotNotInitialized")]
    /\ UNCHANGED <<users, transactions, raffles, raffleEntries, shopItems,
                   purchases, userStates, now, serverTz, maxInFlight, bot>>

broadcast_getActiveUsers(p) ==
    /\ procs[p].pc = "getActiveUsers"
    /\ procs' = [procs EXCEPT ![p] =
            IF getActiveUsers = <<>>
            THEN Done([@ EXCEPT !.activeUsers = getActiveUsers], "returned")
            ELSE Goto([@ EXCEPT !.activeUsers = getActiveUsers], "sendMessage")]
    /\ UNCHANGED <<users, transactions, raffles, raffleEntries, shopItems,
                   purchases, userStates, now, serverTz, maxInFlight, bot>>

\* broadcast_sendMessage where a send that throws ends the loop
broadcast_sendMessage_Abort(p) ==
    /\ procs[p].pc = "sendMessage"
    /\ \E ok \in BOOLEAN :
          LET to == procs[p].activeUsers[procs[p].i]
              logged == [procs[p] EXCEPT !.sent = Append(@, [to |-> to, ok |-> ok])]
          IN procs' = [procs EXCEPT ![p] =
                IF ok THEN Goto([logged EXCEPT !.success = @ + 1], "delay")
                ELSE Done([logged EXCEPT !.failed = @ + 1], "returned")]
    /\ UNCHANGED <<users, transactions, raffles, raffleEntries, shopItems,
                   purchases, userStates, now, serverTz, maxInFlight, bot>>

\* await bot.sendMessage(user.telegramId, ...): it resolves or it throws
broadcast_sendMessage(p) ==
    /\ procs[p].pc = "sendMessage"
    /\ \E ok \in BOOLEAN :
          LET to == procs[p].activeUsers[procs[p].i]
              logged == [procs[p] EXCEPT !.sent = Append(@, [to |-> to, ok |-> ok])]
          IN procs' = [procs EXCEPT ![p] =
                IF ok THEN Goto([logged EXCEPT !.success = @ + 1], "delay")
                ELSE NextRecipient([logged EXCEPT !.failed = @ + 1])]
    /\ UNCHANGED <<users, transactions, raffles, raffleEntries, shopItems,
                   purchases, userStates, now, serverTz, maxInFlight, bot>>

\* await new Promise(resolve => setTimeout(resolve, 50))
broadcast_delay(p) ==
    /\ procs[p].pc = "delay"
    /\ procs' = [procs EXCEPT ![p] = NextRecipient(@)]
    /\ UNCHANGED <<users, transactions, raffles, raffleEntries, shopItems,
                   purchases, userStates, now, serverTz, maxInFlight, bot>>

-----------------------------------------------------------------------------
(* initializeBot() and getBot() *)

\* The locals of one call, and what it found and left in the module variable
InitTask ==
    [kind |-> "init", pc |-> "getBotSetting", out |-> "", end |-> 0,
     after |-> {}, token |-> FALSE, ret |-> 0,
     botAtArrival |-> 0, botAtReturn |-> 0, listenersAtReturn |-> {}]

getBot == bot.instance

\* return null / return bot: the call ends and hands back an instance or null
Returns(rec, value, module) ==
    [Done(rec, "returned") EXCEPT !.ret = value,
                                  !.botAtReturn = module.instance,
                                  !.listenersAtReturn = module.listeners]

\* setupBotHandlers(): if (!bot) return; else the handlers are registered
setupBotHandlers(module) ==
    IF module.instance = 0 THEN module
    ELSE [module EXCEPT !.listeners = @ \cup {module.instance}]

initializeBot(p) ==
    /\ Arrives(p)
    /\ procs' = [procs EXCEPT ![p] =
            [InitTask EXCEPT !.after = Finished, !.botAtArrival = bot.instance,
                             !.pc = IF bot.instance # 0 THEN "stopPolling"
                                    ELSE "getBotSetting"]]
    /\ UNCHANGED <<users, transactions, raffles, raffleEntries, shopItems,
                   purchases, userStates, now, serverTz, maxInFlight, bot>>

\* init_stopPolling leaving the module variable as it was
init_stopPolling_KeepInstance(p) ==
    /\ procs[p].pc = "stopPolling"
    /\ bot' = [bot EXCEPT !.listeners = @ \ {bot.instance}]
    /\ procs' = [procs EXCEPT ![p] = Goto(@, "cleanupWait")]
    /\ UNCHANGED <<users, transactions, raffles, raffleEntries, shopItems,
                   purchases, userStates, now, serverTz, maxInFlight>>

\* await bot.stopPolling() resolves (the instance is created in webhook mode
\* and never polls); then bot.removeAllListeners(); bot = null. When another
\* call has set bot to null meanwhile, removeAllListeners throws and the
\* catch goes on to the token lookup
init_stopPolling(p) ==
    /\ procs[p].pc = "stopPolling"
    /\ IF bot.instance # 0
       THEN /\ bot' = [instance |-> 0, listeners |-> bot.listeners \ {bot.instance}]
            /\ procs' = [procs EXCEPT ![p] = Goto(@, "cleanupWait")]
       ELSE /\ UNCHANGED bot
            /\ procs' = [procs EXCEPT ![p] = Goto(@, "getBotSetting")]
    /\ UNCHANGED <<users, transactions, raffles, raffleEntries, shopItems,
                   purchases, userStates, now, serverTz, maxInFlight>>

\* await new Promise(resolve => setTimeout(resolve, 1000))
init_cleanupWait(p) ==
    /\ procs[p].pc = "cleanupWait"
    /\ procs' = [procs EXCEPT ![p] = Goto(@, "getBotSetting")]
    /\ UNCHANGED <<users, transactions, raffles, raffleEntries, shopItems,
                   purchases, userStates, now, serverTz, maxInFlight, bot>>

\* botTokenSetting?.value || process.env.BOT_TOKEN || process.env.TELEGRAM_BOT_TOKEN
init_getBotSetting(p) ==
    /\ procs[p].pc = "getBotSetting"
    /\ \E hasToken \in BOOLEAN :
          procs' = [procs EXCEPT ![p] =
              IF hasToken THEN Goto([@ EXCEPT !.token = TRUE], "fetch")
              ELSE Returns(@, 0, bot)]
    /\ UNCHANGED <<users, transactions, raffles, raffleEntries, shopItems,
                   purchases, userStates, now, serverTz, maxInFlight, bot>>

\* await fetch(clearUpdatesUrl); bot = new TelegramBot(...); a fetch that
\* throws is caught and the call returns bot
init_fetch(p) ==
    /\ procs[p].pc = "fetch"
    /\ \E ok \in BOOLEAN :
          IF ok
          THEN /\ bot' = [bot EXCEPT !.instance = p]
               /\ procs' = [procs EXCEPT ![p] = Goto(@, "setWebHook")]
          ELSE /\ UNCHANGED bot
               /\ procs' = [procs EXCEPT ![p] = Returns(@, bot.instance, bot)]
    /\ UNCHANGED <<users, transactions, raffles, raffleEntries, shopItems,
                   purchases, userStates, now, serverTz, maxInFlight>>

\* await bot.setWebHook(...); setupBotHandlers(); return bot
init_setWebHook(p) ==
    /\ procs[p].pc = "setWebHook"
    /\ \E ok \in BOOLEAN :
          LET module == IF ok THEN setupBotHandlers(bot) ELSE bot
          IN /\ bot' = module
             /\ procs' = [procs EXCEPT ![p] = Returns(@, module.instance, module)]
    /\ UNCHANGED <<users, transactions, raffles, raffleEntries, shopItems,
                   purchases, userStates, now, serverTz, maxInFlight>>

-----------------------------------------------------------------------------
(* Initial states and specifications *)

TzOffsets == {0, 1}

Member(c, last, ref) == [exists |-> TRUE, coins |-> c, streak |-> 0,
                         lastDailyReward |-> last, referredBy |-> ref]

Raffle(cost, act) == [exists |-> TRUE, entryCost |-> cost, currentEntries |-> 0,
                      maxEntries |-> Null, endDate |-> MaxTime + 1, active |-> act]

Item(cost, stock, act) == [exists |-> TRUE, cost |-> cost, stock |-> stock,
                           active |-> act]

\* A balance held at the start was credited earlier: one transaction states it
Opening(us) ==
    LET holders == SelectSeq(UserOrder, LAMBDA u : us[u].coins > 0)
    IN [k \in 1..Len(holders) |->
          [userId |-> holders[k], type |-> "referral",
           amount |-> us[holders[k]].coins, desc |-> "inviter",
           createdAt |-> 0]]

\* One open raffle that takes a single entry and one closed raffle; one item with a single unit in stock
\* and one with unlimited stock
InitRaffles == [r \in RaffleIds |->
                  IF r = 1 THEN [Raffle(1, TRUE) EXCEPT !.maxEntries = Some(1)]
                  ELSE Raffle(1, FALSE)]

InitShopItems == [i \in ItemIds |-> IF i = 1 THEN Item(2, Some(1), TRUE)
                                    ELSE Item(1, Null, TRUE)]

InitTables(us, n, conc) ==
    /\ users = us
    /\ transactions = Opening(us)
    /\ raffles = InitRaffles
    /\ raffleEntries = [k \in RaffleIds \X UserIds |-> 0]
    /\ shopItems = InitShopItems
    /\ purchases = [k \in ItemIds \X UserIds |-> 0]
    /\ userStates = [u \in UserIds |-> "none"]
    /\ now = 0
    /\ maxInFlight = conc
    /\ bot = RunningBot
    /\ procs = [p \in 1..n |-> IdleProc]

\* Daily check-ins of registered users, over three civil days
InitDaily ==
    /\ serverTz \in TzOffsets
    /\ InitTables([u \in UserIds |-> IF u = "u3" THEN NoUser
                                     ELSE Member(0, Null, NoCode)],
                  MaxDailyEvents, MaxDailyEvents)

NextDaily ==
    \/ Tick
    \/ \E p \in ProcIds, u \in {"u1", "u2"} : OnDaily(p, u)
    \/ \E p \in ProcIds, u \in {"u1", "u2"} : OnCallback(p, u, "daily_checkin")
    \/ \E p \in ProcIds : OnDaily_claimDaily(p)
    \/ \E p \in ProcIds : handleDailyCheckin_awardReward(p)
    \/ \E p \in ProcIds : handleDailyCheckin_updateUser(p)

SpecDaily == InitDaily /\ [][NextDaily]_vars

\* Raffle entries and shop purchases of two users holding two coins each
TradeUsers == [u \in UserIds |-> IF u = "u3" THEN NoUser
                                 ELSE Member(2, Null, NoCode)]

InitTrade ==
    /\ serverTz = 0
    /\ InitTables(TradeUsers, MaxTradeEvents, MaxTradeEvents)

\* u1 sends every kind of trade event; u2 competes for the last unit of item 1
TradeTexts(u) == IF u = "u1" THEN {"1", "2"} ELSE {}
TradeTags(u) == IF u = "u1" THEN {"raffle_1", "raffle_2", "shop_1", "shop_2"}
                ELSE {"shop_1"}

NextTrade ==
    \/ \E p \in ProcIds, u \in {"u1", "u2"} :
          \E text \in TradeTexts(u) : OnMessage(p, u, text)
    \/ \E p \in ProcIds, u \in {"u1", "u2"} :
          \E data \in TradeTags(u) : OnCallback(p, u, data)
    \/ \E p \in ProcIds : OnMessage_getActiveRaffles(p)
    \/ \E p \in ProcIds : OnMessage_getActiveShopItems(p)
    \/ \E p \in ProcIds : handleRaffleEntry_getRaffleById(p)
    \/ \E p \in ProcIds : handleShopPurchase_getAllShopItems(p)
    \/ \E p \in ProcIds : EnterRaffle_updateUser(p)
    \/ \E p \in ProcIds : EnterRaffle_enterRaffle(p)
    \/ \E p \in ProcIds : EnterRaffle_updateRaffle(p)
    \/ \E p \in ProcIds : EnterRaffle_createTransaction(p)
    \/ \E p \in ProcIds : Purchase_updateUser(p)
    \/ \E p \in ProcIds : Purchase_createPurchase(p)
    \/ \E p \in ProcIds : Purchase_updateShopItem(p)
    \/ \E p \in ProcIds : Purchase_createTransaction(p)

SpecTrade == InitTrade /\ [][NextTrade]_vars

\* Every button the bot renders, pressed by u1
NextButtons ==
    \/ \E p \in ProcIds, data \in CallbackTags : OnCallback(p, "u1", data)
    \/ \E p \in ProcIds : handleDailyCheckin_awardReward(p)
    \/ \E p \in ProcIds : handleDailyCheckin_updateUser(p)
    \/ \E p \in ProcIds : handleView(p)
    \/ \E p \in ProcIds : handleEnterCode(p)
    \/ \E p \in ProcIds : handleBackToMenu(p)
    \/ \E p \in ProcIds : handleRaffleEntry_getRaffleById(p)
    \/ \E p \in ProcIds : handleShopPurchase_getAllShopItems(p)
    \/ \E p \in ProcIds : EnterRaffle_updateUser(p)
    \/ \E p \in ProcIds : EnterRaffle_enterRaffle(p)
    \/ \E p \in ProcIds : EnterRaffle_updateRaffle(p)
    \/ \E p \in ProcIds : EnterRaffle_createTransaction(p)
    \/ \E p \in ProcIds : Purchase_updateUser(p)
    \/ \E p \in ProcIds : Purchase_createPurchase(p)
    \/ \E p \in ProcIds : Purchase_updateShopItem(p)
    \/ \E p \in ProcIds : Purchase_createTransaction(p)

SpecButtons == InitTrade /\ [][NextButtons]_vars

\* The same shop and raffles, events handled one at a time, and any storage
\* call may reject
InitFault ==
    /\ serverTz = 0
    /\ InitTables(TradeUsers, MaxFaultEvents, 1)

FaultTexts == {"1", "2", "C2"}
FaultTags == {"enter_code", "raffle_1", "shop_1"}

NextFault ==
    \/ \E p \in ProcIds, text \in FaultTexts : OnMessage(p, "u1", text)
    \/ \E p \in ProcIds, data \in FaultTags : OnCallback(p, "u1", data)
    \/ \E p \in ProcIds : OnDaily(p, "u1")
    \/ \E p \in ProcIds : OnDaily_claimDaily(p)
    \/ \E p \in ProcIds : handleEnterCode(p)
    \/ \E p \in ProcIds : OnMessage_getUserByReferralCode(p)
    \/ \E p \in ProcIds : Referral_awardReferrer(p)
    \/ \E p \in ProcIds : Referral_awardReferee(p)
    \/ \E p \in ProcIds : Referral_updateUser(p)
    \/ \E p \in ProcIds : OnMessage_getActiveRaffles(p)
    \/ \E p \in ProcIds : OnMessage_getActiveShopItems(p)
    \/ \E p \in ProcIds : handleRaffleEntry_getRaffleById(p)
    \/ \E p \in ProcIds : handleShopPurchase_getAllShopItems(p)
    \/ \E p \in ProcIds : EnterRaffle_updateUser(p)
    \/ \E p \in ProcIds : EnterRaffle_enterRaffle(p)
    \/ \E p \in ProcIds : EnterRaffle_updateRaffle(p)
    \/ \E p \in ProcIds : EnterRaffle_createTransaction(p)
    \/ \E p \in ProcIds : Purchase_updateUser(p)
    \/ \E p \in ProcIds : Purchase_createPurchase(p)
    \/ \E p \in ProcIds : Purchase_updateShopItem(p)
    \/ \E p \in ProcIds : Purchase_createTransaction(p)
    \/ \E p \in ProcIds : storageFails(p)

SpecFault == InitFault /\ [][NextFault]_vars

\* The invitation-code dialogue of u1 among u1's other events and the events
\* of u2, two events in flight at a time
InitDialog ==
    /\ serverTz = 0
    /\ InitTables(TradeUsers, MaxDialogEvents, 2)

DialogTexts(u) == IF u = "u1" THEN {"1", "C2", "CX"} ELSE {"C1"}
DialogTags(u) == IF u = "u1" THEN {"enter_code", "back_to_menu", "my_info"}
                 ELSE {"enter_code"}

NextDialog ==
    \/ \E p \in ProcIds, u \in {"u1", "u2"} :
          \E text \in DialogTexts(u) : OnMessage(p, u, text)
    \/ \E p \in ProcIds, u \in {"u1", "u2"} :
          \E data \in DialogTags(u) : OnCallback(p, u, data)
    \/ \E p \in ProcIds : OnDaily(p, "u1")
    \/ \E p \in ProcIds : OnDaily_claimDaily(p)
    \/ \E p \in ProcIds : handleEnterCode(p)
    \/ \E p \in ProcIds : handleBackToMenu(p)
    \/ \E p \in ProcIds : handleView(p)
    \/ \E p \in ProcIds : OnMessage_getUserByReferralCode(p)
    \/ \E p \in ProcIds : Referral_awardReferrer(p)
    \/ \E p \in ProcIds : Referral_awardReferee(p)
    \/ \E p \in ProcIds : Referral_updateUser(p)
    \/ \E p \in ProcIds : OnMessage_getActiveRaffles(p)
    \/ \E p \in ProcIds : EnterRaffle_updateUser(p)
    \/ \E p \in ProcIds : EnterRaffle_enterRaffle(p)
    \/ \E p \in ProcIds : EnterRaffle_updateRaffle(p)
    \/ \E p \in ProcIds : EnterRaffle_createTransaction(p)

SpecDialog == InitDialog /\ [][NextDialog]_vars

\* Three users with one coin each enter open raffle 1, by button or by
\* numbered reply
InitRaffle ==
    /\ serverTz = 0
    /\ InitTables([u \in UserIds |-> Member(1, Null, NoCode)],
                  MaxRaffleEvents, MaxRaffleEvents)

NextRaffle ==
    \/ \E p \in ProcIds, u \in UserIds : OnCallback(p, u, "raffle_1")
    \/ \E p \in ProcIds : OnMessage(p, "u1", "1")
    \/ \E p \in ProcIds : OnMessage_getActiveRaffles(p)
    \/ \E p \in ProcIds : handleRaffleEntry_getRaffleById(p)
    \/ \E p \in ProcIds : EnterRaffle_updateUser(p)
    \/ \E p \in ProcIds : EnterRaffle_enterRaffle(p)
    \/ \E p \in ProcIds : EnterRaffle_updateRaffle(p)
    \/ \E p \in ProcIds : EnterRaffle_createTransaction(p)

SpecRaffle == InitRaffle /\ [][NextRaffle]_vars

\* Numbered replies of u1 against every combination of open and closed
\* raffles and listed and unlisted shop items
SelectTexts == {"0", "1", "2", "3"}

InitSelect ==
    /\ serverTz = 0
    /\ users = TradeUsers
    /\ transactions = Opening(TradeUsers)
    /\ \E act \in [RaffleIds -> BOOLEAN] :
          raffles = [r \in RaffleIds |-> [InitRaffles[r] EXCEPT !.active = act[r]]]
    /\ raffleEntries = [k \in RaffleIds \X UserIds |-> 0]
    /\ \E act \in [ItemIds -> BOOLEAN] :
          shopItems = [i \in ItemIds |-> [InitShopItems[i] EXCEPT !.active = act[i]]]
    /\ purchases = [k \in ItemIds \X UserIds |-> 0]
    /\ userStates = [u \in UserIds |-> "none"]
    /\ now = 0
    /\ maxInFlight = MaxSelectEvents
    /\ bot = RunningBot
    /\ procs = [p \in 1..MaxSelectEvents |-> IdleProc]

NextSelect ==
    \/ \E p \in ProcIds, text \in SelectTexts : OnMessage(p, "u1", text)
    \/ \E p \in ProcIds : OnMessage_getActiveRaffles(p)
    \/ \E p \in ProcIds : OnMessage_getActiveShopItems(p)
    \/ \E p \in ProcIds : EnterRaffle_updateUser(p)
    \/ \E p \in ProcIds : EnterRaffle_enterRaffle(p)
    \/ \E p \in ProcIds : EnterRaffle_updateRaffle(p)
    \/ \E p \in ProcIds : EnterRaffle_createTransaction(p)
    \/ \E p \in ProcIds : Purchase_updateUser(p)
    \/ \E p \in ProcIds : Purchase_createPurchase(p)
    \/ \E p \in ProcIds : Purchase_updateShopItem(p)
    \/ \E p \in ProcIds : Purchase_createTransaction(p)

SpecSelect == InitSelect /\ [][NextSelect]_vars

\* The same shelves, reached by numbered replies and by the Buy buttons of
\* both items alike
NextShelf ==
    \/ \E p \in ProcIds, text \in SelectTexts : OnMessage(p, "u1", text)
    \/ \E p \in ProcIds, data \in {"shop_1", "shop_2"} : OnCallback(p, "u1", data)
    \/ \E p \in ProcIds : OnMessage_getActiveRaffles(p)
    \/ \E p \in ProcIds : OnMessage_getActiveShopItems(p)
    \/ \E p \in ProcIds : handleShopPurchase_getAllShopItems(p)
    \/ \E p \in ProcIds : EnterRaffle_updateUser(p)
    \/ \E p \in ProcIds : EnterRaffle_enterRaffle(p)
    \/ \E p \in ProcIds : EnterRaffle_updateRaffle(p)
    \/ \E p \in ProcIds : EnterRaffle_createTransaction(p)
    \/ \E p \in ProcIds : Purchase_updateUser(p)
    \/ \E p \in ProcIds : Purchase_createPurchase(p)
    \/ \E p \in ProcIds : Purchase_updateShopItem(p)
    \/ \E p \in ProcIds : Purchase_createTransaction(p)

SpecShelf == InitSelect /\ [][NextShelf]_vars

\* Broadcasts to every possible set of registered users
InitBroadcast ==
    /\ serverTz = 0
    /\ \E S \in SUBSET UserIds :
          LET us == [u \in UserIds |-> IF u \in S THEN Member(0, Null, NoCode)
                                       ELSE NoUser]
          IN InitTables(us, MaxBroadcasts, MaxBroadcasts)

NextBroadcast ==
    \/ \E p \in ProcIds, botReady \in BOOLEAN : broadcastMessage(p, botReady)
    \/ \E p \in ProcIds : broadcast_getActiveUsers(p)
    \/ \E p \in ProcIds : broadcast_sendMessage(p)
    \/ \E p \in ProcIds : broadcast_delay(p)

SpecBroadcast == InitBroadcast /\ [][NextBroadcast]_vars

\* Calls of initializeBot, starting with no instance
InitStartup ==
    /\ serverTz = 0
    /\ users = TradeUsers
    /\ transactions = Opening(TradeUsers)
    /\ raffles = InitRaffles
    /\ raffleEntries = [k \in RaffleIds \X UserIds |-> 0]
    /\ shopItems = InitShopItems
    /\ purchases = [k \in ItemIds \X UserIds |-> 0]
    /\ userStates = [u \in UserIds |-> "none"]
    /\ now = 0
    /\ maxInFlight = MaxInitCalls
    /\ bot = NoBot
    /\ procs = [p \in 1..MaxInitCalls |-> IdleProc]

NextStartup ==
    \/ \E p \in ProcIds : initializeBot(p)
    \/ \E p \in ProcIds : init_stopPolling(p)
    \/ \E p \in ProcIds : init_cleanupWait(p)
    \/ \E p \in ProcIds : init_getBotSetting(p)
    \/ \E p \in ProcIds : init_fetch(p)
    \/ \E p \in ProcIds : init_setWebHook(p)

SpecStartup == InitStartup /\ [][NextStartup]_vars

\* Referrals: u1 owns a code, u2 is registered and unreferred, u3 is new
InitReferral ==
    /\ serverTz = 0
    /\ InitTables([u \in UserIds |-> CASE u = "u1" -> Member(1, Null, NoCode)
                                       [] u = "u2" -> Member(0, Null, NoCode)
                                       [] OTHER -> NoUser],
                  MaxReferralEvents, MaxReferralEvents)

\* A user's own code exists, and can be typed, once the user is registered
OwnCode(u) == IF users[u].exists THEN {referralCode(u)} ELSE {}

\* The codes of the registered users: the codes that circulate
RegisteredCodes == {referralCode(x) : x \in {y \in UserIds : users[y].exists}}

NextReferral ==
    \/ \E p \in ProcIds, u \in {"u2", "u3"} :
          \E code \in {NoCode, "C1", "CX"} \cup OwnCode(u) \cup RegisteredCodes :
             OnStart(p, u, code)
    \/ \E p \in ProcIds, u \in {"u2", "u3"} :
          \E text \in {"C1", "c1", "CX"} \cup OwnCode(u) \cup RegisteredCodes :
             OnMessage(p, u, text)
    \/ \E p \in ProcIds, u \in {"u2", "u3"} : OnCallback(p, u, "enter_code")
    \/ \E p \in ProcIds : OnStart_createUser(p)
    \/ \E p \in ProcIds : OnStart_getUserByReferralCode(p)
    \/ \E p \in ProcIds : OnMessage_getUserByReferralCode(p)
    \/ \E p \in ProcIds : handleEnterCode(p)
    \/ \E p \in ProcIds : Referral_awardReferrer(p)
    \/ \E p \in ProcIds : Referral_awardReferee(p)
    \/ \E p \in ProcIds : Referral_updateUser(p)

SpecReferral == InitReferral /\ [][NextReferral]_vars

-----------------------------------------------------------------------------
(* What the claims speak about *)

TxOf(u) == SelectSeq(transactions, LAMBDA t : t.userId = u)

RECURSIVE SumAmounts(_)
SumAmounts(txs) ==
    IF txs = <<>> THEN 0 ELSE Head(txs).amount + SumAmounts(Tail(txs))

Started == {p \in ProcIds : procs[p].pc # "idle"}

\* q arrived after p had finished
Follows(q, p) == p \in procs[q].after

\* p and q were in flight at the same time
Overlap(p, q) == p # q /\ p \in Started /\ q \in Started
                 /\ ~Follows(q, p) /\ ~Follows(p, q)

\* p has finished and is the latest event, and no other event overlapped it
Alone(p) == /\ procs[p].pc = "done"
            /\ \A q \in ProcIds \ {p} : procs[q].pc = "idle" \/ Follows(p, q)

\* The events in S are the only ones user u has sent so far
OnlyEventsOf(u, S) == \A r \in Started \ S : procs[r].uid # u

IsDailyClaim(p) ==
    \/ procs[p].kind = "daily"
    \/ procs[p].kind = "callback" /\ procs[p].arg = "daily_checkin"

\* The daily_reward credits of user u dated to the UTC-8 civil day d
DailyCredits(u, d) ==
    {i \in DOMAIN transactions :
        /\ transactions[i].userId = u
        /\ transactions[i].type = "daily_reward"
        /\ PstDay(transactions[i].createdAt) = d}

-----------------------------------------------------------------------------
(* C1: at every quiescent point, for every user, the amounts of the user's  *)
(* transactions sum to the user's coins.                                    *)
C1_LedgerEqualsTransactionSum ==
    Quiescent => \A u \in UserIds : SumAmounts(TxOf(u)) = users[u].coins

(* C2: a user's coins is never negative, in any state reached by any        *)
(* interleaving of raffle entries and shop purchases on either path.        *)
C2_CoinsNeverNegative ==
    \A u \in UserIds : users[u].coins >= 0

\* Two overlapping successful debits of one user that emptied the balance
C2_Witness ==
    \E p, q \in ProcIds :
        /\ Overlap(p, q)
        /\ procs[p].uid = procs[q].uid
        /\ procs[p].out = "ok" /\ procs[q].out = "ok"
        /\ users[procs[p].uid].coins = 0

(* C3: of two daily claims of one user (and no other event of that user),   *)
(* the second arriving after the first has succeeded and within the same    *)
(* UTC-8 civil day, the second is rejected as already claimed and the       *)
(* balance has changed exactly once.                                        *)
C3_SecondClaimSameDayRejected ==
    \A p, q \in ProcIds :
        ( /\ IsDailyClaim(p) /\ IsDailyClaim(q)
          /\ procs[p].uid = procs[q].uid
          /\ Follows(q, p) /\ procs[p].out = "ok"
          /\ PstDay(procs[p].at) = PstDay(procs[q].at)
          /\ OnlyEventsOf(procs[p].uid, {p, q})
          /\ Alone(q) )
        => /\ procs[q].out = "AlreadyClaimedToday"
           /\ users[procs[q].uid].coins
                = procs[p].coinsAt[procs[p].uid] + dailyRewardAmount

(* C4: at most one daily_reward credit is applied per user per UTC-8 civil  *)
(* day, under every interleaving (stated for a server running in UTC).      *)
C4_OneDailyCreditPerDay ==
    serverTz = 0 =>
        \A u \in UserIds, d \in 0..(MaxTime + 3) :
            Cardinality(DailyCredits(u, d)) <= 1

(* C5: of two daily claims of one user on consecutive UTC-8 civil days, the *)
(* second arriving after the first has succeeded, both succeed, each raises *)
(* the streak by exactly 1 and each raises coins by the daily amount        *)
(* (stated for a server running in UTC).                                    *)
C5_ConsecutiveDaysBothCount ==
    serverTz = 0 =>
    \A p, q \in ProcIds :
        ( /\ IsDailyClaim(p) /\ IsDailyClaim(q)
          /\ procs[p].uid = procs[q].uid
          /\ Follows(q, p) /\ procs[p].out = "ok"
          /\ PstDay(procs[p].at) = PstDay(procs[p].end)
          /\ PstDay(procs[q].at) = PstDay(procs[p].end) + 1
          /\ OnlyEventsOf(procs[p].uid, {p, q})
          /\ Alone(q) )
        => /\ procs[q].out = "ok"
           /\ procs[q].found.streak = procs[p].found.streak + 1
           /\ users[procs[q].uid].streak = procs[q].found.streak + 1
           /\ procs[q].found.coins = procs[p].found.coins + dailyRewardAmount
           /\ users[procs[q].uid].coins = procs[q].found.coins + dailyRewardAmount

\* The shop item a purchase event is aimed at, 0 when it is no purchase event
PurchaseTarget(p) ==
    IF procs[p].kind = "callback" /\ startsWithShop(procs[p].arg)
    THEN tagId(procs[p].arg)
    ELSE IF /\ procs[p].kind = "message"
            /\ parseInt(procs[p].arg) > Len(getActiveRaffles)
            /\ parseInt(procs[p].arg) <= Len(getActiveShopItems)
         THEN getActiveShopItems[parseInt(procs[p].arg)]
    ELSE 0

(* C6: two overlapping purchases by one user of an item whose cost equals   *)
(* the user's whole balance end with exactly one success and one rejection  *)
(* (insufficient balance or out of stock).                                  *)
C6_ExactBalanceOneSuccess ==
    \A p, q \in ProcIds :
        ( /\ Overlap(p, q)
          /\ procs[p].pc = "done" /\ procs[q].pc = "done"
          /\ procs[p].uid = procs[q].uid
          /\ PurchaseTarget(p) # 0 /\ PurchaseTarget(p) = PurchaseTarget(q)
          /\ procs[p].found.coins = shopItems[PurchaseTarget(p)].cost
          /\ procs[q].found.coins = shopItems[PurchaseTarget(q)].cost )
        => \/ /\ procs[p].out = "ok"
              /\ procs[q].out \in {"InsufficientBalance", "OutOfStock"}
           \/ /\ procs[q].out = "ok"
              /\ procs[p].out \in {"InsufficientBalance", "OutOfStock"}

-----------------------------------------------------------------------------
(* Handling one trade event with no other event in between: the handler's   *)
(* reads and writes applied to a state st of the ledger, transaction        *)
(* counts and sums, raffle counters and stock.                              *)

\* The raffle a trade event selects, 0 when none
RaffleTarget(kind, arg) ==
    IF kind = "callback" /\ startsWithRaffle(arg)
    THEN IF tagId(arg) \in RaffleIds /\ raffles[tagId(arg)].exists
         THEN tagId(arg) ELSE 0
    ELSE IF kind = "message" /\ parseInt(arg) > 0
            /\ parseInt(arg) <= Len(getActiveRaffles)
         THEN getActiveRaffles[parseInt(arg)]
    ELSE 0

\* The shop item a trade event selects, 0 when none
ItemTarget(kind, arg) ==
    IF kind = "callback" /\ startsWithShop(arg)
    THEN IF tagId(arg) \in ItemIds /\ shopItems[tagId(arg)].exists
         THEN tagId(arg) ELSE 0
    ELSE IF kind = "message" /\ RaffleTarget(kind, arg) = 0
            /\ parseInt(arg) > 0 /\ parseInt(arg) <= Len(getActiveShopItems)
         THEN getActiveShopItems[parseInt(arg)]
    ELSE 0

Ledger == [coins |-> [u \in UserIds |-> users[u].coins],
           txCount |-> [u \in UserIds |-> Len(TxOf(u))],
           txSum |-> [u \in UserIds |-> SumAmounts(TxOf(u))],
           currentEntries |-> [r \in RaffleIds |-> raffles[r].currentEntries],
           raffleEntries |-> raffleEntries,
           stock |-> [i \in ItemIds |-> shopItems[i].stock],
           purchases |-> purchases]

EnterRaffleAlone(st, u, r) ==
    LET cost == raffles[r].entryCost
    IN IF st.coins[u] < cost THEN st
       ELSE [st EXCEPT !.coins[u] = @ - cost,
                       !.raffleEntries[<<r, u>>] = @ + 1,
                       !.currentEntries[r] = @ + 1,
                       !.txCount[u] = @ + 1,
                       !.txSum[u] = @ - cost]

PurchaseAlone(st, u, i) ==
    LET cost == shopItems[i].cost
    IN IF st.coins[u] < cost THEN st
       ELSE IF st.stock[i] # Null /\ TheValue(st.stock[i]) <= 0 THEN st
       ELSE [st EXCEPT !.coins[u] = @ - cost,
                       !.purchases[<<i, u>>] = @ + 1,
                       !.stock[i] = IF @ = Null THEN Null
                                    ELSE Some(TheValue(@) - 1),
                       !.txCount[u] = @ + 1,
                       !.txSum[u] = @ - cost]

HandleAlone(st, p) ==
    LET r == RaffleTarget(procs[p].kind, procs[p].arg)
        i == ItemTarget(procs[p].kind, procs[p].arg)
    IN IF r # 0 THEN EnterRaffleAlone(st, procs[p].uid, r)
       ELSE IF i # 0 THEN PurchaseAlone(st, procs[p].uid, i)
       ELSE st

RECURSIVE SerialRun(_, _)
SerialRun(st, order) ==
    IF order = <<>> THEN st
    ELSE SerialRun(HandleAlone(st, Head(order)), Tail(order))

\* The ledger before any trade event
LedgerAtStart ==
    LET opening == Opening(TradeUsers)
        of(u) == SelectSeq(opening, LAMBDA t : t.userId = u)
    IN [coins |-> [u \in UserIds |-> TradeUsers[u].coins],
        txCount |-> [u \in UserIds |-> Len(of(u))],
        txSum |-> [u \in UserIds |-> SumAmounts(of(u))],
        currentEntries |-> [r \in RaffleIds |-> InitRaffles[r].currentEntries],
        raffleEntries |-> [k \in RaffleIds \X UserIds |-> 0],
        stock |-> [i \in ItemIds |-> InitShopItems[i].stock],
        purchases |-> [k \in ItemIds \X UserIds |-> 0]]

SerialOrders == {o \in [1..Cardinality(Started) -> Started] :
                    \A a, b \in DOMAIN o : a # b => o[a] # o[b]}

(* C7: when the events handled so far all belong to one user and none is    *)
(* still in flight, the coins, transactions, raffle entry counts and stock  *)
(* are those some serial order of the same events produces.                 *)
C7_EquivalentToSomeSerialOrder ==
    ( /\ Quiescent /\ Started # {}
      /\ \A p, q \in Started : procs[p].uid = procs[q].uid )
    => \E o \in SerialOrders : Ledger = SerialRun(LedgerAtStart, o)

-----------------------------------------------------------------------------
(* Referral claims *)

\* The event applied a referral code: /start <code>, or a message consumed
\* as an invitation code
IsReferralAttempt(p) ==
    /\ procs[p].pc = "done"
    /\ \/ procs[p].kind = "start" /\ procs[p].arg # NoCode
       \/ /\ procs[p].kind = "message"
          /\ procs[p].out \in {"UnknownCode", "SelfReferral", "AlreadyReferred",
                               "ReferralAccepted"}

BalancesUnchanged(p) ==
    \A u \in UserIds : users[u].coins = procs[p].coinsAt[u]

RefereeCredits(u) ==
    {i \in DOMAIN transactions :
        /\ transactions[i].userId = u
        /\ transactions[i].type = "referral"
        /\ transactions[i].desc = "referee"}

(* C8: when a user without referredBy applies the code of another existing  *)
(* user R, as a brand-new user through /start <code> or through an          *)
(* invitation-code message, then R and the user are each credited the       *)
(* referral amount, each with its own transaction, and the user's           *)
(* referredBy is R's code.                                                  *)
C8_ReferralCreditsBoth ==
    \A p \in ProcIds :
        LET u == procs[p].uid
            R == getUserByReferralCode(users, procs[p].arg)
        IN ( /\ Alone(p) /\ IsReferralAttempt(p)
             /\ procs[p].kind = "start" => ~procs[p].found.exists
             /\ procs[p].found.referredBy = NoCode
             /\ R # "" /\ R # u )
           => /\ users[R].coins = procs[p].coinsAt[R] + referralReward
              /\ users[u].coins = procs[p].coinsAt[u] + referralReward
              /\ users[u].referredBy = referralCode(R)
              /\ Len(transactions) = procs[p].txAt + 2

(* C9: an attempt to apply any code by a user whose referredBy is already   *)
(* set is rejected and changes no balance, and no user is ever credited the *)
(* referee bonus twice.                                                     *)
C9_ReferredOnlyOnce ==
    /\ \A p \in ProcIds :
          (IsReferralAttempt(p) /\ procs[p].found.referredBy # NoCode)
          => /\ procs[p].out # "ReferralAccepted"
             /\ Alone(p) => BalancesUnchanged(p)
    /\ \A u \in UserIds : Cardinality(RefereeCredits(u)) <= 1

(* C10: a registered user applying their own code, through /start or an     *)
(* invitation-code message, is rejected (as SelfReferral on the message     *)
(* path); no balance changes and no transaction is appended.                *)
C10_SelfReferralRejected ==
    \A p \in ProcIds :
        ( /\ IsReferralAttempt(p)
          /\ procs[p].found.exists
          /\ procs[p].arg = referralCode(procs[p].uid) )
        => /\ procs[p].out # "ReferralAccepted"
           /\ procs[p].kind = "message" => procs[p].out = "SelfReferral"
           /\ Alone(p) => /\ BalancesUnchanged(p)
                          /\ Len(transactions) = procs[p].txAt

-----------------------------------------------------------------------------
\* A code that no user owns, now or later
UnknownCodes == {"CX"}

(* C11: when a user without referredBy supplies a code owned by no user,    *)
(* through /start <code> (as a new or an existing user) or as an            *)
(* invitation-code message, the attempt fails (as UnknownCode on the        *)
(* message path): no balance changes, no transaction is appended and the    *)
(* user's referredBy stays unset.                                           *)
C11_UnknownCodeLeavesNoTrace ==
    \A p \in ProcIds :
        ( /\ Alone(p) /\ IsReferralAttempt(p)
          /\ procs[p].arg \in UnknownCodes
          /\ procs[p].found.referredBy = NoCode )
        => /\ procs[p].out # "ReferralAccepted"
           /\ procs[p].kind = "message" => procs[p].out = "UnknownCode"
           /\ BalancesUnchanged(p)
           /\ Len(transactions) = procs[p].txAt
           /\ users[procs[p].uid].referredBy = NoCode

(* C12: once a user's referredBy is set, no later step changes its value,   *)
(* under any order or interleaving of /start <code> commands and            *)
(* invitation-code messages.                                                *)
C12_ReferredByImmutable ==
    [][\A u \in UserIds :
          (users[u].exists /\ users[u].referredBy # NoCode)
          => users'[u].referredBy = users[u].referredBy]_vars

-----------------------------------------------------------------------------
(* Rejections of raffle entries and purchases *)

\* Nothing was written between the arrival of event p and now
Untouched(p) ==
    /\ BalancesUnchanged(p)
    /\ Len(transactions) = procs[p].txAt
    /\ <<raffles, raffleEntries, shopItems, purchases>> = procs[p].tablesAt

\* The finished raffle-entry events of user u aimed at raffle r that succeeded
EntriesMade(u, r) ==
    {p \in Finished : /\ procs[p].uid = u
                      /\ RaffleTarget(procs[p].kind, procs[p].arg) = r
                      /\ procs[p].out = "ok"}

RaffleEntryTx(u) ==
    {i \in DOMAIN transactions : /\ transactions[i].userId = u
                                 /\ transactions[i].type = "raffle_entry"}

(* C13: a raffle entry attempted, on the numbered-reply path or the         *)
(* raffle_<id> button path, by a user whose coins is below the raffle's     *)
(* entryCost is rejected as InsufficientBalance and writes nothing: coins,  *)
(* currentEntries, raffle entries and transactions are as they were; and    *)
(* under every interleaving the raffle entries and raffle_entry             *)
(* transactions of a user are exactly those of the entries that succeeded.  *)
C13_RaffleInsufficientBalance ==
    /\ \A p \in Finished :
          LET r == RaffleTarget(procs[p].kind, procs[p].arg)
          IN (r # 0 /\ procs[p].found.coins < raffles[r].entryCost)
             => /\ procs[p].out = "InsufficientBalance"
                /\ Alone(p) => Untouched(p)
    /\ Quiescent =>
          \A u \in UserIds :
             /\ \A r \in RaffleIds :
                   raffleEntries[<<r, u>>] = Cardinality(EntriesMade(u, r))
             /\ Cardinality(RaffleEntryTx(u))
                  = Cardinality(UNION {EntriesMade(u, r) : r \in RaffleIds})

\* A raffle entry rejected for lack of coins, on each of the two paths
C13_Witness ==
    \E p \in Finished :
        /\ RaffleTarget(procs[p].kind, procs[p].arg) # 0
        /\ procs[p].found.coins
             < raffles[RaffleTarget(procs[p].kind, procs[p].arg)].entryCost
        /\ procs[p].out = "InsufficientBalance"
        /\ Alone(p)

\* The raffle row r, as event p found the table on arrival, takes no entry
ClosedAtArrival(p, r) ==
    LET row == procs[p].tablesAt[1][r]
    IN \/ ~row.active
       \/ procs[p].at > row.endDate
       \/ row.maxEntries # Null /\ row.currentEntries >= TheValue(row.maxEntries)

(* C14: a raffle entry aimed, on the numbered-reply path or the raffle_<id> *)
(* button path, at a raffle that is inactive, past its end time or at       *)
(* maxEntries is rejected as RaffleClosed, and writes nothing: no debit, no *)
(* raffle entry, no transaction.                                            *)
C14_ClosedRaffleRejected ==
    \A p \in Finished :
        LET r == RaffleTarget(procs[p].kind, procs[p].arg)
        IN (r # 0 /\ ClosedAtArrival(p, r))
           => /\ procs[p].out = "RaffleClosed"
              /\ Alone(p) => Untouched(p)

(* C15: a purchase, on either path, of an item whose tracked stock is 0 is  *)
(* rejected as OutOfStock whatever the user's balance is, also when the     *)
(* balance is below the item's cost, and writes nothing: no debit, no       *)
(* purchase, no transaction.                                                *)
C15_OutOfStockWhateverBalance ==
    \A p \in Finished :
        LET i == ItemTarget(procs[p].kind, procs[p].arg)
        IN (i # 0 /\ procs[p].tablesAt[3][i].stock = Some(0))
           => /\ procs[p].out = "OutOfStock"
              /\ Alone(p) => Untouched(p)

-----------------------------------------------------------------------------
(* Atomicity of the effects of an entry *)

RECURSIVE SumOver(_, _)
SumOver(f, S) ==
    IF S = {} THEN 0
    ELSE LET x == CHOOSE y \in S : TRUE IN f[x] + SumOver(f, S \ {x})

\* What event q found on arrival: the transactions appended so far, the
\* raffle rows and the raffle entries
TxSeenBy(q, u) ==
    SelectSeq(SubSeq(transactions, 1, procs[q].txAt), LAMBDA t : t.userId = u)

EntriesSeenBy(q, u) ==
    SumOver([r \in RaffleIds |-> procs[q].tablesAt[2][<<r, u>>]], RaffleIds)

(* C16: the debit, the raffle entry, the increment of currentEntries and    *)
(* the raffle_entry transaction of a raffle entry are applied as one unit:  *)
(* whenever only raffle entries have been handled, what a newly arriving    *)
(* handler reads shows, for every user, as many raffle_entry transactions   *)
(* as raffle entries and coins equal to the sum of the transactions, and    *)
(* for every raffle a currentEntries equal to the number of its entries.    *)
C16_RaffleEntryAllOrNothing ==
    \A q \in Started :
        (\A p \in Started : ItemTarget(procs[p].kind, procs[p].arg) = 0)
        => /\ \A u \in UserIds :
                /\ procs[q].coinsAt[u] = SumAmounts(TxSeenBy(q, u))
                /\ EntriesSeenBy(q, u)
                     = Len(SelectSeq(TxSeenBy(q, u),
                                     LAMBDA t : t.type = "raffle_entry"))
           /\ \A r \in RaffleIds :
                procs[q].tablesAt[1][r].currentEntries
                  = SumOver([u \in UserIds |-> procs[q].tablesAt[2][<<r, u>>]],
                            UserIds)

-----------------------------------------------------------------------------
(* C17: a successful purchase handled alone lowers the user's coins by      *)
(* exactly the item's cost, lowers the item's stock by exactly 1 when the   *)
(* stock is tracked and leaves it null when it is not, adds exactly one     *)
(* (completed) purchase of that item by that user and appends exactly one   *)
(* transaction of type shop_purchase with amount -cost; nothing else        *)
(* changes.                                                                 *)
C17_PurchaseAloneEffects ==
    \A p \in Finished :
        LET i == ItemTarget(procs[p].kind, procs[p].arg)
            u == procs[p].uid
            before == procs[p].tablesAt
            cost == before[3][i].cost
        IN (Alone(p) /\ i # 0 /\ procs[p].out = "ok")
           => /\ users = [users EXCEPT ![u].coins = procs[p].coinsAt[u] - cost]
              /\ shopItems = [before[3] EXCEPT ![i].stock =
                                 IF @ = Null THEN Null ELSE Some(TheValue(@) - 1)]
              /\ purchases = [before[4] EXCEPT ![<<i, u>>] = @ + 1]
              /\ Len(transactions) = procs[p].txAt + 1
              /\ LET t == transactions[Len(transactions)]
                 IN t.userId = u /\ t.type = "shop_purchase" /\ t.amount = 0 - cost
              /\ raffles = before[1] /\ raffleEntries = before[2]

\* A purchase of the item with tracked stock succeeded, handled alone
C17_Witness ==
    \E p \in Finished :
        /\ Alone(p) /\ procs[p].out = "ok"
        /\ ItemTarget(procs[p].kind, procs[p].arg) # 0
        /\ procs[p].tablesAt[3][ItemTarget(procs[p].kind, procs[p].arg)].stock # Null

-----------------------------------------------------------------------------
(* C18: the eligibility check applied to a daily claim answers "already     *)
(* claimed" exactly when the last claim and the present instant fall on the *)
(* same civil day of the fixed UTC-8 offset, and lets the claim pass when   *)
(* the present day is later or there was no claim before, whatever time     *)
(* zone the server process runs in and however little time has passed.      *)
C18_EligibilityIsUtcMinus8Day ==
    \A p \in Started :
        (IsDailyClaim(p) /\ procs[p].found.exists)
        => LET last == procs[p].found.lastDailyReward
           IN (procs[p].out = "AlreadyClaimedToday")
              <=> (last # Null /\ PstDay(TheValue(last)) = PstDay(procs[p].at))

-----------------------------------------------------------------------------
(* Numbered selection *)

\* The ledger as event p found it on arrival
LedgerAt(p) ==
    [coins |-> procs[p].coinsAt,
     txCount |-> [u \in UserIds |-> Len(TxSeenBy(p, u))],
     txSum |-> [u \in UserIds |-> SumAmounts(TxSeenBy(p, u))],
     currentEntries |-> [r \in RaffleIds |-> procs[p].tablesAt[1][r].currentEntries],
     raffleEntries |-> procs[p].tablesAt[2],
     stock |-> [i \in ItemIds |-> procs[p].tablesAt[3][i].stock],
     purchases |-> procs[p].tablesAt[4]]

(* C19: a bare number n sent by a registered user outside a pending         *)
(* conversation state acts on the n-th active raffle when n is between 1    *)
(* and the number of active raffles, otherwise on the n-th active shop item *)
(* when n is between 1 and the number of active shop items, and otherwise   *)
(* is ignored: no operation runs and nothing changes.                       *)
C19_NumberedSelection ==
    \A p \in Finished :
        LET n == parseInt(procs[p].arg)
            u == procs[p].uid
            before == LedgerAt(p)
        IN (procs[p].kind = "message" /\ procs[p].found.exists /\ n # NaN /\ Alone(p))
           => IF n >= 1 /\ n <= Len(getActiveRaffles)
              THEN /\ Ledger = EnterRaffleAlone(before, u, getActiveRaffles[n])
                   /\ procs[p].out \in {"ok", "InsufficientBalance"}
              ELSE IF n >= 1 /\ n <= Len(getActiveShopItems)
              THEN /\ Ledger = PurchaseAlone(before, u, getActiveShopItems[n])
                   /\ procs[p].out \in {"ok", "InsufficientBalance", "OutOfStock"}
              ELSE /\ procs[p].out = "Ignored"
                   /\ Untouched(p)

\* A number beyond the raffle list bought the shop item at that position
C19_Witness ==
    \E p \in Finished :
        /\ procs[p].kind = "message" /\ Alone(p)
        /\ getActiveRaffles # <<>>
        /\ parseInt(procs[p].arg) > Len(getActiveRaffles)
        /\ parseInt(procs[p].arg) <= Len(getActiveShopItems)
        /\ procs[p].out = "ok"

-----------------------------------------------------------------------------
(* Broadcast *)

Broadcasts == {p \in ProcIds : procs[p].kind = "broadcast"}

RECURSIVE Threw(_)
Threw(log) ==
    IF log = <<>> THEN 0
    ELSE (IF Head(log).ok THEN 0 ELSE 1) + Threw(Tail(log))

(* C20: a broadcast that has returned has attempted exactly one send to     *)
(* every active user, in the order of the list, whichever sends threw; its  *)
(* counters satisfy success + failed = number of active users and failed =  *)
(* number of sends that threw; and a broadcast still running is at a step   *)
(* of the loop with a recipient left, so no failure has stopped it.         *)
C20_BroadcastCountsEverySend ==
    \A p \in Broadcasts :
        LET b == procs[p]
        IN /\ (b.pc = "done" /\ b.out = "returned")
              => /\ b.activeUsers = getActiveUsers
                 /\ Len(b.sent) = Len(b.activeUsers)
                 /\ \A k \in 1..Len(b.sent) : b.sent[k].to = b.activeUsers[k]
                 /\ b.success + b.failed = Len(b.activeUsers)
                 /\ b.failed = Threw(b.sent)
           /\ b.pc \in {"sendMessage", "delay"}
              => /\ b.i <= Len(b.activeUsers)
                 /\ Len(b.sent) = (IF b.pc = "delay" THEN b.i ELSE b.i - 1)
                 /\ b.success + b.failed = Len(b.sent)

\* A broadcast returned after a send threw and later sends were still made
C20_Witness ==
    \E p \in Broadcasts :
        /\ procs[p].pc = "done" /\ procs[p].out = "returned"
        /\ Len(procs[p].sent) = 3
        /\ ~procs[p].sent[1].ok /\ procs[p].sent[3].ok
        /\ procs[p].failed = 2

-----------------------------------------------------------------------------
(* Startup *)

InitCalls == {p \in ProcIds : procs[p].kind = "init"}

\* No other call of initializeBot was in flight while p was
NotOverlapped(p) ==
    \A q \in InitCalls \ {p} : q \in procs[p].after \/ p \in procs[q].after

(* C21: a call of initializeBot that finds no bot token (and that no other  *)
(* call of initializeBot overlaps) returns null, has registered no          *)
(* handlers, and leaves no instance: at its return getBot() is null and    *)
(* the instance that existed before the call, if any, has lost its handlers.*)
C21_NoTokenLeavesNoBot ==
    \A p \in InitCalls :
        (procs[p].pc = "done" /\ ~procs[p].token /\ NotOverlapped(p))
        => /\ procs[p].out = "returned" /\ procs[p].ret = 0
           /\ procs[p].botAtReturn = 0
           /\ procs[p].botAtArrival \notin procs[p].listenersAtReturn
           /\ p \notin bot.listeners

\* A call found an initialized instance with handlers and no token
C21_Witness ==
    \E p \in InitCalls :
        /\ procs[p].pc = "done" /\ ~procs[p].token /\ NotOverlapped(p)
        /\ procs[p].botAtArrival # 0
        /\ getBot = 0


-----------------------------------------------------------------------------
(* Storage failures *)

\* Event p ended in the catch block of its handler
Failed(p) == procs[p].pc = "done" /\ procs[p].out \in {"ErrorLogged", "Apology"}

(* C22: when a storage call fails while an event (command, message or      *)
(* callback) is handled, the user is sent the generic apology and the       *)
(* event leaves balances, transactions, raffles, entries, stock, purchases  *)
(* and every conversation state as they were when it arrived.               *)
C22_StorageFailureLeavesNoTrace ==
    \A p \in ProcIds :
        (Alone(p) /\ Failed(p))
        => /\ procs[p].out = "Apology"
           /\ Untouched(p)
           /\ users = [users EXCEPT ![procs[p].uid] = procs[p].found]
           /\ userStates = procs[p].statesAt


-----------------------------------------------------------------------------
(* The invitation-code dialogue *)

\* This step is the arrival of an event: task p takes it
ArrivalOf(p) == procs[p].pc = "idle" /\ procs'[p].pc # "idle"

\* The invitation-code state of user u was pending when event p arrived
PendingAtArrival(p) ==
    /\ procs[p].found.exists
    /\ procs[p].statesAt[procs[p].uid] = "expecting_invite_code"

CodeOutcomes == {"UnknownCode", "SelfReferral", "AlreadyReferred", "ReferralAccepted"}

(* C23: a user's conversation state goes from absent to awaiting a code     *)
(* only in the step of that user's enter_code button that sets it; the      *)
(* arrival of a text message of the user leaves the state absent, whatever  *)
(* the later lookup of the code finds; and a text message that arrives      *)
(* with the state absent is not taken as an invitation code.                *)
C23_PendingStateLifecycle ==
    [][\A u \in UserIds :
          /\ (userStates[u] = "none" /\ userStates'[u] = "expecting_invite_code")
             => \E p \in ProcIds : /\ procs[p].kind = "callback"
                                   /\ procs[p].arg = "enter_code"
                                   /\ procs[p].uid = u
                                   /\ procs[p].pc = "enter_setState"
                                   /\ procs'[p].pc = "done"
          /\ \A p \in ProcIds :
                (ArrivalOf(p) /\ procs'[p].kind = "message" /\ procs'[p].uid = u)
                => /\ userStates'[u] = "none"
                   /\ userStates[u] = "none"
                      => procs'[p].pc # "invite_getUserByReferralCode"]_vars

\* u1 pressed the button, sent a code that was looked up, and then sent a
\* number that was handled as a raffle entry
C23_Witness ==
    \E p, q \in ProcIds :
        /\ procs[p].kind = "message" /\ procs[q].kind = "message"
        /\ procs[p].uid = "u1" /\ procs[q].uid = "u1"
        /\ PendingAtArrival(p) /\ procs[p].out \in CodeOutcomes
        /\ Follows(q, p) /\ ~PendingAtArrival(q)
        /\ procs[q].arg = "1" /\ procs[q].out = "ok"
        /\ userStates["u1"] = "none"

(* C24: a text message that arrives while its sender's state is pending is  *)
(* handled as an invitation code and as nothing else: it only ever runs     *)
(* the code lookup and the referral credit, it ends in one of the code      *)
(* outcomes, and handled alone it changes no raffle, entry, item or         *)
(* purchase, also when the text is an integer that numbers an open raffle.  *)
C24_PendingMessageIsOnlyACode ==
    \A p \in ProcIds :
        (procs[p].kind = "message" /\ PendingAtArrival(p))
        => /\ procs[p].pc \in {"invite_getUserByReferralCode", "referral_awardReferrer",
                               "referral_awardReferee", "referral_updateUser", "done"}
           /\ procs[p].pc = "done" => procs[p].out \in CodeOutcomes
           /\ Alone(p) => <<raffles, raffleEntries, shopItems, purchases>>
                              = procs[p].tablesAt

\* u1, who can afford open raffle 1, sent "1" while the state was pending
C24_Witness ==
    \E p \in ProcIds :
        /\ procs[p].kind = "message" /\ PendingAtArrival(p) /\ Alone(p)
        /\ procs[p].arg = "1"
        /\ getActiveRaffles # <<>>
        /\ procs[p].found.coins >= raffles[getActiveRaffles[1]].entryCost
        /\ procs[p].out = "UnknownCode"


(* C29: a pending invitation-code state of a user stops being pending only  *)
(* in the step in which a text message of that user or a back_to_menu       *)
(* button of that user is taken up; slash commands, every other button and  *)
(* every event of another user leave it pending.                            *)
C29_PendingClearedOnlyByOwner ==
    [][\A u \in UserIds :
          (userStates[u] = "expecting_invite_code"
             /\ userStates'[u] # "expecting_invite_code")
          => \E p \in ProcIds :
                /\ ArrivalOf(p) /\ procs'[p].uid = u
                /\ \/ procs'[p].kind = "message"
                   \/ procs'[p].kind = "callback" /\ procs'[p].arg = "back_to_menu"]_vars

\* u1's state is still pending after a /daily command or a my_info button of
\* u1 that arrived while it was pending
C29_Witness ==
    \E p \in ProcIds :
        /\ procs[p].pc = "done" /\ procs[p].uid = "u1" /\ PendingAtArrival(p)
        /\ \/ procs[p].kind = "daily"
           \/ procs[p].kind = "callback" /\ procs[p].arg = "my_info"
        /\ userStates["u1"] = "expecting_invite_code"


-----------------------------------------------------------------------------
(* Counters under concurrent entries and purchases *)

(* C25: while a raffle is active, no step lowers its currentEntries,        *)
(* whatever the interleaving of the entries, each made by a different user. *)
C25_CurrentEntriesNeverDecreases ==
    [][(\A p, q \in Started : p # q => procs[p].uid # procs[q].uid)
       => \A r \in RaffleIds :
             (raffles[r].exists /\ raffles[r].active)
             => raffles'[r].currentEntries >= raffles[r].currentEntries]_vars


(* C26: within one broadcast, a send that is not the last one is followed   *)
(* by the pacing delay before the next send starts, also when that send     *)
(* threw.                                                                   *)
C26_DelayBetweenConsecutiveSends ==
    [][\A p \in ProcIds :
          ( /\ procs[p].kind = "broadcast" /\ procs[p].pc = "sendMessage"
            /\ procs'[p] # procs[p]
            /\ procs'[p].pc # "done" )
          => procs'[p].pc = "delay"]_vars


\* The Purchase rows of item i
PurchasesOf(i) == SumOver([u \in UserIds |-> purchases[<<i, u>>]], UserIds)

(* C27: for every item whose stock is tracked, the number of Purchases      *)
(* never exceeds the stock the item started with, and the stock is never    *)
(* negative, whatever the interleaving of the purchases, each made by a     *)
(* different user.                                                          *)
C27_PurchasesWithinInitialStock ==
    (\A p, q \in Started : p # q => procs[p].uid # procs[q].uid)
    => \A i \in ItemIds :
          InitShopItems[i].stock # Null
          => /\ PurchasesOf(i) <= TheValue(InitShopItems[i].stock)
             /\ TheValue(shopItems[i].stock) >= 0


\* Event p has debited its user for a purchase
Debited(p) == \/ procs[p].pc \in {"shop_createPurchase", "shop_updateShopItem",
                                  "shop_createTransaction"}
              \/ procs[p].pc = "done" /\ procs[p].out = "ok"

(* C28: an item that is inactive has no Purchase, and no event aimed at it, *)
(* by numbered reply or by its shop_<id> button, has debited its user.      *)
C28_InactiveItemNotSold ==
    \A i \in ItemIds :
        (shopItems[i].exists /\ ~shopItems[i].active)
        => /\ PurchasesOf(i) = 0
           /\ \A p \in Started :
                 ItemTarget(procs[p].kind, procs[p].arg) = i => ~Debited(p)


-----------------------------------------------------------------------------
(* Acknowledgement of button presses *)

(* C30: the handling of a button press of a registered user, for any        *)
(* callback_data the bot renders (daily_completed included), does not end   *)
(* without the query having been answered with answerCallbackQuery.         *)
C30_EveryButtonAnswered ==
    \A p \in Finished :
        ( /\ procs[p].kind = "callback" /\ procs[p].found.exists
          /\ procs[p].arg \in CallbackTags )
        => procs[p].out # "Unanswered"

====
